---- MODULE Spec2Model ----
(***************************************************************************)
(* A model of the runnable logic of the three example programs             *)
(*   1. Types/1.1  narrowing an i32 into an i16 with try_into().unwrap()   *)
(*   1. Types/1.2  modify_all: a FnMut closure applied to a slice          *)
(*   1. Types/1.3  Option / Result transforms, the question mark operator, *)
(*                 map_err, as_ref().unwrap_or(..)                         *)
(* The three programs are independent binaries: a behaviour starts in      *)
(* pc = "start" and runs exactly one of them.                              *)
(***************************************************************************)
EXTENDS Integers, Sequences, FiniteSets, TLC

VARIABLES
    pc,       \* "start", then the program running ("chain", "input_data",
              \* "find_user", "modify_all"), then "done" or "narrowed"
    op,       \* the operation executed last ("" before the first)
    slot,     \* the place that owns the container a transform chain starts from
    cur,      \* the temporary the chain has produced so far (Nothing: none yet)
    ty,       \* the static type of the payload the chain currently carries
    hist,     \* the chain so far: one record per operation applied
    panic,    \* NoPanic, or the message of the panic that ended the program
    variant,  \* which find_user is running: "io", "string" or "boxed"
    step,     \* find_user: the fallible step to execute next
    ran,      \* find_user: the steps executed, in order, with their results
    ret,      \* find_user: the value returned to the caller (Nothing: running)
    data,     \* modify_all: the slice
    data0,    \* modify_all: the slice as it was passed in
    idx,      \* modify_all: position of the for loop (next index to visit)
    mut,      \* modify_all: the closure, [kind, env] (env is its captured state)
    log,      \* modify_all: the arguments the closure was invoked with, in order
    x32,      \* 1.1: the i32 being narrowed
    y16,      \* 1.1: the i16 obtained (Nothing: none)
    payload,  \* InputData.payload
    payload0, \* InputData.payload before encrypted() was called
    encArg    \* the bytes encrypted() hands to encrypt (Nothing: not called)

vars == <<pc, op, slot, cur, ty, hist, panic, variant, step, ran, ret,
          data, data0, idx, mut, log, x32, y16, payload, payload0, encArg>>

-----------------------------------------------------------------------------
(* Bounds of the model *)

MaxVal == 5        \* container payloads are 0..MaxVal (0 is the zero value)
MaxChain == 2      \* transforms applied after the constructor
NSteps == 3        \* fallible steps in the body of find_user
MaxLen == 2        \* length of the slices and byte vectors
Margin == 2        \* how far around each boundary the i32 inputs reach

-----------------------------------------------------------------------------
(* Values.  An i32, a usize and a u32 are integers, a Vec<u8> is a sequence *)
(* of bytes, a shared reference &v is Ref(v).  The closures used on i32     *)
(* payloads stay far below 2^31 within the bounds, so no overflow check of  *)
(* the build is reached.                                                    *)

Vals == 0..MaxVal
Bytes == {0, 255}
ByteVecs == UNION {[1..n -> Bytes] : n \in 0..MaxLen}

Nothing == [tag |-> "Nothing"]
Moved == [tag |-> "Moved"]
NoPanic == [tag |-> "NoPanic"]
Unit == [tag |-> "Unit"]

Some(v) == [tag |-> "Some", some |-> v]
None == [tag |-> "None"]
Ok(v) == [tag |-> "Ok", ok |-> v]
Err(e) == [tag |-> "Err", err |-> e]

IsOption(c) == c.tag \in {"Some", "None"}
IsResult(c) == c.tag \in {"Ok", "Err"}

Ref(v) == [ref |-> v]
Plain(v) == [tag |-> "Value", val |-> v]
Bool(b) == [tag |-> "Bool", b |-> b]

(* std::io::Error as File::open returns it (an OS error: ENOENT or        *)
(* EACCES), a String error, a boxed error.  Text is a sequence of tokens;  *)
(* a double quote and a backslash are always tokens of their own.          *)
IoKinds == {"NotFound", "PermissionDenied"}
OsCode(k) == IF k = "NotFound" THEN "2" ELSE "13"
OsMessage(k) ==
    IF k = "NotFound" THEN "No such file or directory" ELSE "Permission denied"
IoError(k) ==
    [ty |-> "io::Error", kind |-> k, code |-> OsCode(k),
     message |-> OsMessage(k)]
TryFromIntError == [ty |-> "TryFromIntError"]
StringOf(s) == [ty |-> "String", chars |-> s]
BoxOf(e) == [ty |-> "Box<dyn Error>", inner |-> e]

(* The text of a string literal: quotes and backslashes escaped *)
RECURSIVE Escaped(_)
Escaped(s) ==
    IF s = <<>> THEN <<>>
    ELSE (IF Head(s) \in {"\"", "\\"} THEN <<"\\", Head(s)>> ELSE <<Head(s)>>)
         \o Escaped(Tail(s))

(* {:?} of an error *)
Debug(e) ==
    IF e.ty = "io::Error"
    THEN <<"Os { code: ", e.code, ", kind: ", e.kind, ", message: ",
           "\"", e.message, "\"", " }">>
    ELSE IF e.ty = "TryFromIntError" THEN <<"TryFromIntError(())">>
    ELSE <<"\"">> \o Escaped(e.chars) \o <<"\"">>

(* {} of an error *)
Display(e) ==
    IF e.ty = "io::Error" THEN <<e.message, " (os error ", e.code, ")">>
    ELSE e.chars

-----------------------------------------------------------------------------
(* Closures *)

amount == 3

(* The closures handed to map, by the type of the payload they take *)
FnsOf(t) ==
    IF t \in {"i32", "usize"} THEN {"double", "add_num"}
    ELSE IF t = "&i32" THEN {"deref"}
    ELSE IF t = "&Vec<u8>" THEN {"deref", "len"}
    ELSE {}

ResTy(f, t) ==
    IF f = "len" THEN "usize"
    ELSE IF f = "deref" THEN (IF t = "&i32" THEN "i32" ELSE "Vec<u8>")
    ELSE t

add_num(y) == y + amount

Call(f, v) ==
    IF f = "double" THEN v * 2
    ELSE IF f = "add_num" THEN add_num(v)
    ELSE IF f = "len" THEN Len(v.ref)
    ELSE v.ref

(* The closures handed to map_err *)
ErrFns == {"fmt_open", "context"}

CallErr(f, e) ==
    IF f = "fmt_open"
    THEN StringOf(<<"Failed to open password file: ">> \o Debug(e))
    ELSE StringOf(<<"find_user: ">> \o Display(e))

Invoke(f, v) == [f |-> f, x |-> v]

-----------------------------------------------------------------------------
(* What an operation does: the value it returns, what is left of its       *)
(* receiver (the receiver itself for a &self method, Moved for a self      *)
(* method), the closure invocations it made, and whether it panicked.      *)

Ret(out, self, calls) ==
    [out |-> out, self |-> self, calls |-> calls, panic |-> NoPanic]

Abort(msg) ==
    [out |-> Nothing, self |-> Moved, calls |-> <<>>,
     panic |-> [tag |-> "Panic", msg |-> msg]]

(* The panic messages of unwrap.  A string of the module cannot hold the  *)
(* backquote character (U+0060); Backquote is the token that stands for    *)
(* it, every other character is the one the program prints.                *)
Backquote == "U+0060"

UnwrapNoneMsg ==
    <<"called ", Backquote, "Option::unwrap()", Backquote, " on a ",
      Backquote, "None", Backquote, " value">>

UnwrapErrMsg(e) ==
    <<"called ", Backquote, "Result::unwrap()", Backquote, " on an ",
      Backquote, "Err", Backquote, " value", ": ">> \o Debug(e)

is_some(o) == Ret(Bool(o.tag = "Some"), o, <<>>)

is_none(o) == Ret(Bool(o.tag = "None"), o, <<>>)

(* A map that rewraps the held value without applying the closure *)
option_map_unapplied(o, f) ==
    IF o.tag = "Some" THEN Ret(Some(o.some), Moved, <<>>)
    ELSE Ret(None, Moved, <<>>)

option_map(o, f) ==
    IF o.tag = "Some"
    THEN Ret(Some(Call(f, o.some)), Moved, <<Invoke(f, o.some)>>)
    ELSE Ret(None, Moved, <<>>)

(* A map that loses the payload of an Err *)
result_map_reset(r, f) ==
    IF r.tag = "Ok"
    THEN Ret(Ok(Call(f, r.ok)), Moved, <<Invoke(f, r.ok)>>)
    ELSE Ret(Err(IoError("NotFound")), Moved, <<>>)

result_map(r, f) ==
    IF r.tag = "Ok"
    THEN Ret(Ok(Call(f, r.ok)), Moved, <<Invoke(f, r.ok)>>)
    ELSE Ret(r, Moved, <<>>)

(* A map_err that invokes the closure and drops what it returned *)
map_err_dropped(r, f) ==
    IF r.tag = "Err" THEN Ret(r, Moved, <<Invoke(f, r.err)>>)
    ELSE Ret(r, Moved, <<>>)

map_err(r, f) ==
    IF r.tag = "Err"
    THEN Ret(Err(CallErr(f, r.err)), Moved, <<Invoke(f, r.err)>>)
    ELSE Ret(r, Moved, <<>>)

(* An unwrap_or that panics on None, as unwrap does *)
unwrap_or_strict(o, d) ==
    IF o.tag = "Some" THEN Ret(Plain(o.some), Moved, <<>>)
    ELSE Abort(UnwrapNoneMsg)

(* An unwrap_or that prefers the default *)
unwrap_or_default_first(o, d) == Ret(Plain(d), Moved, <<>>)

unwrap_or(o, d) ==
    IF o.tag = "Some" THEN Ret(Plain(o.some), Moved, <<>>)
    ELSE Ret(Plain(d), Moved, <<>>)

unwrap(c) ==
    IF c.tag = "Some" THEN Ret(Plain(c.some), Moved, <<>>)
    ELSE IF c.tag = "Ok" THEN Ret(Plain(c.ok), Moved, <<>>)
    ELSE IF c.tag = "None"
    THEN Abort(UnwrapNoneMsg)
    ELSE Abort(UnwrapErrMsg(c.err))

(* An expect that panics with the message of unwrap *)
expect_without_message(c, msg) ==
    IF c.tag = "Some" THEN Ret(Plain(c.some), Moved, <<>>)
    ELSE IF c.tag = "Ok" THEN Ret(Plain(c.ok), Moved, <<>>)
    ELSE IF c.tag = "None"
    THEN Abort(UnwrapNoneMsg)
    ELSE Abort(UnwrapErrMsg(c.err))

expect(c, msg) ==
    IF c.tag = "Some" THEN Ret(Plain(c.some), Moved, <<>>)
    ELSE IF c.tag = "Ok" THEN Ret(Plain(c.ok), Moved, <<>>)
    ELSE IF c.tag = "None" THEN Abort(<<msg>>)
    ELSE Abort(<<msg, ": ">> \o Debug(c.err))

(* match result { Ok(f) => f, Err(_e) => panic!("Failed to open /etc/passwd!") } *)
match_or_panic(r) ==
    IF r.tag = "Ok" THEN Ret(Plain(r.ok), Moved, <<>>)
    ELSE Abort(<<"Failed to open /etc/passwd!">>)

(* An as_ref that takes the value out of its receiver, as take does *)
as_ref_take(o) ==
    IF o.tag = "Some" THEN Ret(Some(Ref(o.some)), None, <<>>)
    ELSE Ret(None, None, <<>>)

as_ref(o) ==
    IF o.tag = "Some" THEN Ret(Some(Ref(o.some)), o, <<>>)
    ELSE Ret(None, o, <<>>)

-----------------------------------------------------------------------------
(* 1.3: chains of transforms.  A container is built in a slot (a field or  *)
(* a local); each transform takes the slot's container, or the temporary   *)
(* the previous transform produced, and produces a new temporary.          *)

Msgs == {"Could not open /etc/passwd"}

(* Option<i32>, Result<i32, io::Error> and Option<Vec<u8>> containers *)
IntContainers ==
    {Some(v) : v \in Vals} \cup {None}
    \cup {Ok(v) : v \in Vals} \cup {Err(IoError(k)) : k \in IoKinds}

VecContainers == {Some(b) : b \in ByteVecs} \cup {None}

Defaults(t) ==
    IF t \in {"i32", "usize"} THEN Vals
    ELSE IF t = "&i32" THEN {Ref(0)}
    ELSE IF t = "&Vec<u8>" THEN {Ref(<<>>)}
    ELSE {<<>>}

Recv == IF cur.tag = "Nothing" THEN slot ELSE cur

CanTransform ==
    /\ pc = "chain"
    /\ panic = NoPanic
    /\ Len(hist) < MaxChain
    /\ Recv.tag \in {"Some", "None", "Ok", "Err"}

Construct ==
    /\ pc = "start"
    /\ \/ \E c \in IntContainers : slot' = c /\ ty' = "i32"
       \/ \E c \in VecContainers : slot' = c /\ ty' = "Vec<u8>"
    /\ op' = slot'.tag
    /\ pc' = "chain"
    /\ UNCHANGED <<cur, hist, panic, variant, step, ran, ret, data, data0,
                   idx, mut, log, x32, y16, payload, payload0, encArg>>

Apply(name, arg, o, t) ==
    /\ hist' = Append(hist, [op |-> name, arg |-> arg, recv |-> Recv,
                             out |-> o.out, calls |-> o.calls])
    /\ op' = name
    /\ panic' = o.panic
    /\ cur' = o.out
    /\ slot' = IF cur.tag = "Nothing" THEN o.self ELSE slot
    /\ ty' = t
    /\ pc' = IF o.panic = NoPanic THEN "chain" ELSE "done"
    /\ UNCHANGED <<variant, step, ran, ret, data, data0, idx, mut, log,
                   x32, y16, payload, payload0, encArg>>

IsSome ==
    /\ CanTransform /\ IsOption(Recv)
    /\ Apply("is_some", Unit, is_some(Recv), "bool")

IsNone ==
    /\ CanTransform /\ IsOption(Recv)
    /\ Apply("is_none", Unit, is_none(Recv), "bool")

OptionMap ==
    /\ CanTransform /\ IsOption(Recv)
    /\ \E f \in FnsOf(ty) :
          Apply("map", [f |-> f], option_map(Recv, f), ResTy(f, ty))

ResultMap ==
    /\ CanTransform /\ IsResult(Recv)
    /\ \E f \in FnsOf(ty) :
          Apply("map", [f |-> f], result_map(Recv, f), ResTy(f, ty))

MapErr ==
    /\ CanTransform /\ IsResult(Recv)
    /\ \E f \in ErrFns :
          Apply("map_err", [f |-> f], map_err(Recv, f), ty)

UnwrapOr ==
    /\ CanTransform /\ IsOption(Recv)
    /\ \E d \in Defaults(ty) :
          Apply("unwrap_or", [d |-> d], unwrap_or(Recv, d), ty)

Unwrap ==
    /\ CanTransform
    /\ Apply("unwrap", Unit, unwrap(Recv), ty)

Expect ==
    /\ CanTransform
    /\ \E msg \in Msgs :
          Apply("expect", [msg |-> msg], expect(Recv, msg), ty)

Match ==
    /\ CanTransform /\ IsResult(Recv)
    /\ Apply("match", Unit, match_or_panic(Recv), ty)

AsRef ==
    /\ CanTransform /\ IsOption(Recv)
    /\ cur.tag = "Nothing"
    /\ ty \in {"i32", "Vec<u8>"}
    /\ Apply("as_ref", Unit, as_ref(Recv),
             IF ty = "i32" THEN "&i32" ELSE "&Vec<u8>")

-----------------------------------------------------------------------------
(* 1.3: InputData.  encrypt itself is not part of the program text; the    *)
(* model records the bytes encrypted() hands to it.                        *)

NewInputData ==
    /\ pc = "start"
    /\ \E p \in VecContainers : payload' = p /\ payload0' = p
    /\ pc' = "input_data"
    /\ op' = "InputData"
    /\ UNCHANGED <<slot, cur, ty, hist, panic, variant, step, ran, ret, data,
                   data0, idx, mut, log, x32, y16, encArg>>

Encrypted ==
    /\ pc = "input_data"
    /\ panic = NoPanic
    /\ LET view == as_ref(payload)
           arg == unwrap_or(view.out, Ref(<<>>))
       IN  /\ payload' = view.self
           /\ panic' = arg.panic
           /\ encArg' = IF arg.panic = NoPanic THEN arg.out.val.ref
                        ELSE Nothing
    /\ op' = "unwrap_or"
    /\ UNCHANGED <<pc, slot, cur, ty, hist, variant, step, ran, ret, data,
                   data0, idx, mut, log, x32, y16, payload0>>

-----------------------------------------------------------------------------
(* 1.3: find_user, a function whose body is a sequence of fallible steps,  *)
(* each followed by the question mark operator.  The variants are the two  *)
(* find_user of the program text (io::Error returned as it is; the error   *)
(* turned into a String by map_err first) and a function that returns      *)
(* Box<dyn Error>, as main does.                                           *)

Variants == {"io", "string", "boxed"}

(* What File::open can return: a handle, or an io::Error *)
StepResults == {Ok(h) : h \in {0, 1}} \cup {Err(IoError(k)) : k \in IoKinds}

(* From::from of the error type of the enclosing function *)
From(v, e) == IF v = "boxed" THEN BoxOf(e) ELSE e

(* A question mark that swallows the error and goes on with a default *)
QuestionSwallow(r, v) ==
    IF r.tag = "Ok" THEN [tag |-> "Continue", val |-> r.ok]
    ELSE [tag |-> "Continue", val |-> 0]

(* expr? : the value of an Ok, or return Err(From::from(e)) *)
Question(r, v) ==
    IF r.tag = "Ok" THEN [tag |-> "Continue", val |-> r.ok]
    ELSE [tag |-> "Return", ret |-> Err(From(v, r.err))]

FindUserCall ==
    /\ pc = "start"
    /\ \E v \in Variants : variant' = v
    /\ step' = 1
    /\ pc' = "find_user"
    /\ op' = "find_user"
    /\ UNCHANGED <<slot, cur, ty, hist, panic, ran, ret, data, data0, idx,
                   mut, log, x32, y16, payload, payload0, encArg>>

FindUserStep ==
    /\ pc = "find_user"
    /\ step <= NSteps
    /\ \E r \in StepResults :
          LET e == IF variant = "string" THEN map_err(r, "fmt_open").out
                   ELSE r
              q == Question(e, variant)
          IN  /\ ran' = Append(ran, [step |-> step, res |-> r,
                                     val |-> IF q.tag = "Continue"
                                             THEN Plain(q.val) ELSE Nothing])
              /\ IF q.tag = "Continue"
                 THEN step' = step + 1 /\ UNCHANGED <<ret, pc>>
                 ELSE ret' = q.ret /\ pc' = "done" /\ UNCHANGED step
    /\ op' = "?"
    /\ UNCHANGED <<slot, cur, ty, hist, panic, variant, data, data0, idx,
                   mut, log, x32, y16, payload, payload0, encArg>>

FindUserReturn ==
    /\ pc = "find_user"
    /\ step = NSteps + 1
    /\ ret' = Ok([i \in 1..Len(ran) |-> ran[i].val.val])
    /\ pc' = "done"
    /\ op' = "return"
    /\ UNCHANGED <<slot, cur, ty, hist, panic, variant, step, ran, data,
                   data0, idx, mut, log, x32, y16, payload, payload0, encArg>>

-----------------------------------------------------------------------------
(* 1.2: modify_all.  The closures are total on u32: halve captures        *)
(* nothing, previous owns the argument of its last call and changes it on  *)
(* every call (FnMut).                                                     *)

U32Vals == {0, 1, 7, 2147483647}
Slices == UNION {[1..n -> U32Vals] : n \in 0..MaxLen}
Mutators == {[kind |-> "halve", env |-> 0],
             [kind |-> "previous", env |-> 0]}

(* One call of the closure: the value returned and its state afterwards *)
mutator(m, v) ==
    IF m.kind = "halve"
    THEN [ret |-> v \div 2, env |-> m.env]
    ELSE [ret |-> m.env, env |-> v]

ModifyAllCall ==
    /\ pc = "start"
    /\ \E d \in Slices : data' = d /\ data0' = d
    /\ \E m \in Mutators : mut' = m
    /\ idx' = 1
    /\ log' = <<>>
    /\ pc' = "modify_all"
    /\ op' = "modify_all"
    /\ UNCHANGED <<slot, cur, ty, hist, panic, variant, step, ran, ret,
                   x32, y16, payload, payload0, encArg>>

(* A loop over copies of the elements: the result is never stored *)
ModifyAllStepByValue ==
    /\ pc = "modify_all"
    /\ idx <= Len(data)
    /\ mut' = [mut EXCEPT !.env = mutator(mut, data[idx]).env]
    /\ log' = Append(log, data[idx])
    /\ idx' = idx + 1
    /\ op' = "mutator"
    /\ UNCHANGED <<pc, slot, cur, ty, hist, panic, variant, step, ran, ret,
                   data, data0, x32, y16, payload, payload0, encArg>>

ModifyAllStep ==
    /\ pc = "modify_all"
    /\ idx <= Len(data)
    /\ LET r == mutator(mut, data[idx])
       IN  /\ data' = [data EXCEPT ![idx] = r.ret]
           /\ mut' = [mut EXCEPT !.env = r.env]
    /\ log' = Append(log, data[idx])
    /\ idx' = idx + 1
    /\ op' = "mutator"
    /\ UNCHANGED <<pc, slot, cur, ty, hist, panic, variant, step, ran, ret,
                   data0, x32, y16, payload, payload0, encArg>>

ModifyAllReturn ==
    /\ pc = "modify_all"
    /\ idx > Len(data)
    /\ pc' = "done"
    /\ op' = "return"
    /\ UNCHANGED <<slot, cur, ty, hist, panic, variant, step, ran, ret, data,
                   data0, idx, mut, log, x32, y16, payload, payload0, encArg>>

-----------------------------------------------------------------------------
(* 1.1: let y: i16 = x.try_into().unwrap(); *)

I16Min == -32768
I16Max == 32767
I32Min == -2147483647 - 1
I32Max == 2147483647

I32Inputs ==
    {I32Min + k : k \in 0..Margin}
    \cup {I16Min + k : k \in -Margin..Margin}
    \cup {k : k \in -Margin..Margin} \cup {42}
    \cup {I16Max + k : k \in -Margin..Margin}
    \cup {I32Max - k : k \in 0..Margin}

(* The truncating conversion x as i16 *)
try_into_wrapping(x) == Ok((((x % 65536) + 32768) % 65536) - 32768)

(* TryFrom<i32> for i16 *)
try_into(x) ==
    IF I16Min <= x /\ x <= I16Max THEN Ok(x) ELSE Err(TryFromIntError)

Narrow ==
    /\ pc = "start"
    /\ \E x \in I32Inputs :
          LET o == unwrap(try_into(x))
          IN  /\ x32' = x
              /\ y16' = o.out
              /\ panic' = o.panic
    /\ pc' = "narrowed"
    /\ op' = "unwrap"
    /\ UNCHANGED <<slot, cur, ty, hist, variant, step, ran, ret, data, data0,
                   idx, mut, log, payload, payload0, encArg>>

-----------------------------------------------------------------------------
Init ==
    /\ pc = "start"
    /\ op = ""
    /\ slot = Nothing
    /\ cur = Nothing
    /\ ty = ""
    /\ hist = <<>>
    /\ panic = NoPanic
    /\ variant = ""
    /\ step = 0
    /\ ran = <<>>
    /\ ret = Nothing
    /\ data = <<>>
    /\ data0 = <<>>
    /\ idx = 0
    /\ mut = Nothing
    /\ log = <<>>
    /\ x32 = 0
    /\ y16 = Nothing
    /\ payload = Nothing
    /\ payload0 = Nothing
    /\ encArg = Nothing

Next ==
    \/ Construct
    \/ IsSome
    \/ IsNone
    \/ OptionMap
    \/ ResultMap
    \/ MapErr
    \/ UnwrapOr
    \/ Unwrap
    \/ Expect
    \/ Match
    \/ AsRef
    \/ NewInputData
    \/ Encrypted
    \/ FindUserCall
    \/ FindUserStep
    \/ FindUserReturn
    \/ ModifyAllCall
    \/ ModifyAllStep
    \/ ModifyAllReturn
    \/ Narrow

Spec == Init /\ [][Next]_vars

-----------------------------------------------------------------------------
(* Shorthands for the properties *)

Steps == 1..Len(hist)
Extracts == {"unwrap", "expect"}
Held(c) == IF c.tag = "Some" THEN c.some ELSE c.ok

(* C1: in find_user the steps run in order, once each, and a step whose    *)
(* result is an Err is the last one executed: no later step runs, the      *)
(* function has returned, and what it returned is that step's error after  *)
(* the conversion of the variant (none for io::Error, the map_err message  *)
(* for String, the box for Box<dyn Error>).                                *)
PropagateShortCircuits ==
    \A k \in 1..Len(ran) :
        /\ ran[k].step = k
        /\ ran[k].res.tag = "Err" =>
              /\ k = Len(ran)
              /\ pc = "done"
              /\ ret = Err(IF variant = "io" THEN ran[k].res.err
                           ELSE IF variant = "string"
                           THEN StringOf(
                               IF ran[k].res.err.kind = "NotFound"
                               THEN <<"Failed to open password file: ",
                                      "Os { code: ", "2", ", kind: ",
                                      "NotFound", ", message: ", "\"",
                                      "No such file or directory", "\"", " }">>
                               ELSE <<"Failed to open password file: ",
                                      "Os { code: ", "13", ", kind: ",
                                      "PermissionDenied", ", message: ", "\"",
                                      "Permission denied", "\"", " }">>)
                           ELSE BoxOf(ran[k].res.err))
        /\ ran[k].res.tag = "Ok" /\ k = Len(ran) /\ k < NSteps =>
              pc = "find_user" /\ ret = Nothing /\ step = k + 1

PropagateWitness ==
    /\ pc = "done"
    /\ variant = "string"
    /\ NSteps >= 3
    /\ Len(ran) = 2
    /\ ran[1].res.tag = "Ok"
    /\ ran[2].res.tag = "Err"
    /\ ret.tag = "Err"

(* C2: map on an Option: on Some(v) the result is Some(f(v)) and f was     *)
(* invoked exactly once, with v; on None the result is None and f was not  *)
(* invoked.                                                                *)
OptionMapContract ==
    \A i \in Steps :
        (hist[i].op = "map" /\ IsOption(hist[i].recv)) =>
            IF hist[i].recv.tag = "Some"
            THEN /\ hist[i].out = Some(Call(hist[i].arg.f, hist[i].recv.some))
                 /\ hist[i].calls = <<Invoke(hist[i].arg.f, hist[i].recv.some)>>
            ELSE /\ hist[i].out = None
                 /\ hist[i].calls = <<>>

OptionMapWitness ==
    /\ Len(hist) = 2
    /\ hist[1].op = "map" /\ hist[1].recv = None /\ hist[1].calls = <<>>
    /\ hist[2].op = "is_none" /\ hist[2].out = Bool(TRUE)

(* C3: map on a Result: on Ok(v) the result is Ok(f(v)) with f invoked     *)
(* once; an Err is returned as it is and f is not invoked.                 *)
ResultMapContract ==
    \A i \in Steps :
        (hist[i].op = "map" /\ IsResult(hist[i].recv)) =>
            IF hist[i].recv.tag = "Ok"
            THEN /\ hist[i].out = Ok(Call(hist[i].arg.f, hist[i].recv.ok))
                 /\ hist[i].calls = <<Invoke(hist[i].arg.f, hist[i].recv.ok)>>
            ELSE /\ hist[i].out = hist[i].recv
                 /\ hist[i].calls = <<>>

ResultMapWitness ==
    /\ Len(hist) = 1
    /\ hist[1].op = "map"
    /\ hist[1].recv = Err(IoError("NotFound"))
    /\ cur = Err(IoError("NotFound"))

(* C4: map_err turns Err(e) into Err(f(e)) and returns an Ok as it is      *)
(* without invoking f; two map_err in a row turn Err(e) into Err(g(f(e))). *)
MapErrContract ==
    \A i \in Steps :
        hist[i].op = "map_err" =>
            /\ IF hist[i].recv.tag = "Err"
               THEN /\ hist[i].out = Err(CallErr(hist[i].arg.f, hist[i].recv.err))
                    /\ hist[i].calls = <<Invoke(hist[i].arg.f, hist[i].recv.err)>>
               ELSE /\ hist[i].out = hist[i].recv
                    /\ hist[i].calls = <<>>
            /\ (i > 1 /\ hist[i - 1].op = "map_err"
                      /\ hist[i - 1].recv.tag = "Err") =>
                  hist[i].out =
                      Err(CallErr(hist[i].arg.f,
                                  CallErr(hist[i - 1].arg.f, hist[i - 1].recv.err)))

MapErrWitness ==
    /\ Len(hist) = 2
    /\ hist[1].op = "map_err" /\ hist[1].arg.f = "fmt_open"
    /\ hist[1].recv = Err(IoError("NotFound"))
    /\ hist[2].op = "map_err" /\ hist[2].arg.f = "fmt_open"
    /\ cur = Err(StringOf(<<"Failed to open password file: ", "\"",
                            "Failed to open password file: ",
                            "Os { code: ", "2", ", kind: ", "NotFound",
                            ", message: ", "\\", "\"",
                            "No such file or directory", "\\", "\"", " }",
                            "\"">>))

(* C5: unwrap and expect return the held value of a Some or an Ok (zero    *)
(* and empty values included) without a panic; on a None or an Err they    *)
(* panic, the program ends there, and the panic of expect starts with the  *)
(* message the caller gave.                                                *)
UnwrapExpectContract ==
    \A i \in Steps :
        hist[i].op \in Extracts =>
            IF hist[i].recv.tag \in {"Some", "Ok"}
            THEN /\ hist[i].out = Plain(Held(hist[i].recv))
                 /\ i = Len(hist) => panic = NoPanic
            ELSE /\ i = Len(hist)
                 /\ panic.tag = "Panic"
                 /\ pc = "done"
                 /\ ~ ENABLED Next
                 /\ hist[i].op = "expect" => panic.msg[1] = hist[i].arg.msg

UnwrapExpectWitness ==
    /\ Len(hist) = 1
    /\ hist[1].op = "expect"
    /\ hist[1].recv = Err(IoError("PermissionDenied"))
    /\ panic.tag = "Panic"
    /\ panic.msg[1] = "Could not open /etc/passwd"

(* C6: none of the operations other than unwrap and expect (building a   *)
(* container, is_some, is_none, map, map_err, unwrap_or, as_ref, the        *)
(* question mark) ever panics: whenever the operation executed last is one  *)
(* of them, and so were all the operations of the chain before it, the      *)
(* program has not panicked.  (The panic! in the Err arm of main's match is *)
(* a fatal path of the program that is none of these operations.)          *)
TotalOps ==
    {"Some", "None", "Ok", "Err", "is_some", "is_none", "map", "map_err",
     "unwrap_or", "as_ref", "?"}

OnlyExtractsAbort ==
    (op \in TotalOps /\ \A i \in Steps : hist[i].op \in TotalOps) =>
        panic = NoPanic

OnlyExtractsWitness ==
    /\ Len(hist) >= 2
    /\ \A i \in Steps : hist[i].op \in TotalOps
    /\ hist[1].recv = None
    /\ hist[Len(hist)].op = "unwrap_or"
    /\ panic = NoPanic

(* C7: unwrap_or never panics and returns the held value of a Some and the *)
(* default of a None; after map(f) it returns f(v) for Some(v) and the     *)
(* default for None (Some(5) doubled gives 10, None gives 0), and          *)
(* encrypted() hands the payload's bytes, or no bytes, to encrypt.         *)
UnwrapOrContract ==
    /\ \A i \in Steps :
          hist[i].op = "unwrap_or" =>
              /\ panic = NoPanic
              /\ hist[i].out = Plain(IF hist[i].recv.tag = "Some"
                                     THEN hist[i].recv.some
                                     ELSE hist[i].arg.d)
              /\ (i > 1 /\ hist[i - 1].op = "map") =>
                    hist[i].out =
                        Plain(IF hist[i - 1].recv.tag = "Some"
                              THEN Call(hist[i - 1].arg.f, hist[i - 1].recv.some)
                              ELSE hist[i].arg.d)
              /\ (i > 1 /\ hist[i - 1].op = "map" /\ hist[i - 1].arg.f = "double"
                        /\ ty = "i32" /\ hist[i].arg.d = 0) =>
                    /\ hist[i - 1].recv = Some(5) => cur = Plain(10)
                    /\ hist[i - 1].recv = None => cur = Plain(0)
    /\ (pc = "input_data" /\ op = "unwrap_or") =>
          /\ panic = NoPanic
          /\ encArg = IF payload0.tag = "Some" THEN payload0.some ELSE <<>>

UnwrapOrWitness ==
    /\ Len(hist) = 2
    /\ hist[1].op = "map" /\ hist[1].arg.f = "double"
    /\ hist[1].recv = Some(5)
    /\ hist[2].op = "unwrap_or" /\ hist[2].arg.d = 0
    /\ cur = Plain(10)

(* C8: as_ref leaves the container it is applied to in its slot, with the  *)
(* same variant and value, whatever is done with the view afterwards; the  *)
(* view is a Some, of a reference to the held value, exactly when the      *)
(* container is a Some.  InputData.payload is the same before and after    *)
(* encrypted().                                                            *)
AsRefKeepsOwner ==
    /\ (hist # <<>> /\ hist[1].op = "as_ref") =>
          /\ slot = hist[1].recv
          /\ hist[1].out.tag = "Some" <=> slot.tag = "Some"
          /\ slot.tag = "Some" => hist[1].out = Some(Ref(slot.some))
    /\ pc = "input_data" => payload = payload0

AsRefWitness ==
    /\ Len(hist) = 2
    /\ hist[1].op = "as_ref"
    /\ hist[2].op = "unwrap_or"
    /\ slot.tag = "Some"
    /\ cur = Plain(Ref(slot.some))

(* C9: while modify_all runs and after it has returned, the closure has    *)
(* been invoked once for each element before the loop position, in index   *)
(* order, with the element's original value; those elements hold what the  *)
(* closure returned (half the value for halve, the value of the element    *)
(* before for previous), the others are untouched, and the length is the   *)
(* original one.  After the return every element has been visited.         *)
ModifyAllContract ==
    pc \in {"modify_all", "done"} /\ mut # Nothing =>
        /\ Len(data) = Len(data0)
        /\ idx \in 1..Len(data0) + 1
        /\ log = SubSeq(data0, 1, idx - 1)
        /\ \A i \in 1..Len(data0) :
              data[i] = IF i >= idx THEN data0[i]
                        ELSE IF mut.kind = "halve" THEN data0[i] \div 2
                        ELSE IF i = 1 THEN 0 ELSE data0[i - 1]
        /\ pc = "done" => idx = Len(data0) + 1

ModifyAllWitness ==
    /\ pc = "done"
    /\ mut # Nothing
    /\ mut.kind = "previous"
    /\ Len(data0) = 2
    /\ data0[1] = 7 /\ data0[2] = 1
    /\ data = <<0, 7>>
    /\ log = <<7, 1>>

(* C10: x.try_into().unwrap() gives the i16 of the same numeric value when *)
(* x is within -32768..32767 and panics otherwise; no other value is ever  *)
(* produced.                                                               *)
NarrowContract ==
    pc = "narrowed" =>
        IF -32768 <= x32 /\ x32 <= 32767
        THEN panic = NoPanic /\ y16 = Plain(x32)
        ELSE panic.tag = "Panic" /\ y16 = Nothing

NarrowWitness ==
    /\ pc = "narrowed"
    /\ x32 = 32768
    /\ panic.tag = "Panic"

====
